---------------------------- MODULE Spec2Model ----------------------------
(***************************************************************************)
(* A model of the two command-line tools of ncd-tools:                     *)
(*   ncd-build  (src/src/bin/ncd-build.rs)  and                            *)
(*   ncd-lookup (src/src/bin/ncd-lookup.rs).                               *)
(* Three state machines share the module, each with its own variables:     *)
(*   SniffSpec   the UTF-8 sniffer looks_like_utf8 applied to a buffer,    *)
(*   LookupSpec  ncd-lookup's main,                                        *)
(*   BuildSpec   ncd-build's main (FairBuildSpec adds its scheduling).     *)
(* A specification leaves the variables of the other machines untouched.   *)
(***************************************************************************)
EXTENDS Integers, Sequences, FiniteSets, TLC

VARIABLES
    \* ---- the sniffer ----
    sniff_bytes,     \* the buffer handed to the matcher closure
    sniff_pc,        \* "idle" | "ready" | "matched"
    sniff_result,    \* what looks_like_utf8 returned
    \* ---- ncd-lookup ----
    lk_args,         \* matches: [source, path, timeout]
    lk_pc,           \* position in main
    lk_source,       \* Source::File | Source::Http, as "File" | "Http" | "unset"
    lk_value,        \* reader.get's answer: "unset" | "none" | "some"
    lk_stdout,       \* "nothing" | "partial" | "value"
    lk_stderr,       \* number of messages written to stderr
    lk_exit,         \* {} while running, {code} after process::exit(code)
    lk_cause,        \* why the process ended
    \* ---- ncd-build ----
    bd_matches,      \* matches: the careful flag and the seven build knobs
    bd_pc,           \* position in main
    bd_config,       \* build_config
    bd_file,         \* what is at the OUTPUT path
    bd_page_size,    \* the builder's current page size
    bd_need,         \* the smallest page size at which the source packs
    bd_success,      \* the loop's `success`
    bd_trace,        \* the last lines of the loop's output trace
    bd_stderr,       \* number of messages written to stderr
    bd_exit,         \* {} while running, {code} after the process ended
    bd_cause         \* why the process ended

sniff_vars  == <<sniff_bytes, sniff_pc, sniff_result>>
lookup_vars == <<lk_args, lk_pc, lk_source, lk_value, lk_stdout, lk_stderr, lk_exit, lk_cause>>
build_vars  == <<bd_matches, bd_pc, bd_config, bd_file, bd_page_size, bd_need, bd_success, bd_trace,
                 bd_stderr, bd_exit, bd_cause>>
vars == <<sniff_vars, lookup_vars, build_vars>>

(***************************************************************************)
(* Bounds of the model.                                                    *)
(***************************************************************************)
MaxLen == 5
MaxPathLen == 4
MaxTrace == 6

(***************************************************************************)
(* Bytes.  The buffer is drawn over a set of bytes that holds one member   *)
(* of every class the sniffer and UTF-8 tell apart.                        *)
(***************************************************************************)
ByteSet == {33, 128, 144, 160, 192, 193, 194, 224, 237, 243, 244, 245}
    \* 0x21, 0x80, 0x90, 0xA0, 0xC0, 0xC1, 0xC2, 0xE0, 0xED, 0xF3, 0xF4, 0xF5

SeqsUpTo(S, n) == UNION {[1..k -> S] : k \in 0..n}

IsCont(b) == b >= 128 /\ b <= 191

\* The number of bytes of the sequence a lead byte starts; 0: no lead byte.
SeqLen(b) ==
    IF b < 128 THEN 1
    ELSE IF b >= 194 /\ b <= 223 THEN 2
    ELSE IF b >= 224 /\ b <= 239 THEN 3
    ELSE IF b >= 240 /\ b <= 244 THEN 4
    ELSE 0

\* The range of the second byte of a sequence, which excludes overlong forms,
\* surrogates and code points above U+10FFFF.
SecondLo(b) == IF b = 224 THEN 160 ELSE IF b = 240 THEN 144 ELSE 128
SecondHi(b) == IF b = 237 THEN 159 ELSE IF b = 244 THEN 143 ELSE 191

\* String::from_utf8(..).is_ok() on the bytes of s from index i on.
RECURSIVE Utf8From(_, _)
Utf8From(s, i) ==
    IF i > Len(s) THEN TRUE
    ELSE LET n == SeqLen(s[i]) IN
         /\ n > 0
         /\ i + n - 1 <= Len(s)
         /\ n >= 2 => (s[i+1] >= SecondLo(s[i]) /\ s[i+1] <= SecondHi(s[i]))
         /\ \A k \in 2..(n-1) : IsCont(s[i+k])
         /\ Utf8From(s, i + n)

from_utf8_is_ok(s) == Utf8From(s, 1)

\* The while loop of looks_like_utf8: drops trailing continuation bytes, at
\* most `limit` of them.  Returns the rest and the number dropped.
RECURSIVE ChopConts(_, _, _)
ChopConts(valid, chop, limit) ==
    IF chop < limit /\ Len(valid) > 0 /\ valid[Len(valid)] > 127 /\ valid[Len(valid)] < 192
    THEN ChopConts(SubSeq(valid, 1, Len(valid) - 1), chop + 1, limit)
    ELSE [valid |-> valid, chop |-> chop]

\* The statement after the loop: drops one trailing byte above 0xBF.
ChopLead(st) ==
    IF Len(st.valid) > 0 /\ st.valid[Len(st.valid)] > 191
    THEN [valid |-> SubSeq(st.valid, 1, Len(st.valid) - 1), chop |-> st.chop + 1]
    ELSE st

HasBadByte(bytes) == \E i \in 1..Len(bytes) : bytes[i] = 192 \/ bytes[i] = 193 \/ bytes[i] > 244

\* Mutants of looks_like_utf8.
looks_like_utf8_NoByteScan(bytes) ==
    IF from_utf8_is_ok(bytes) THEN TRUE
    ELSE LET st == ChopLead(ChopConts(bytes, 0, 3)) IN
         IF st.chop > 0 /\ Len(st.valid) = 0 THEN FALSE
         ELSE from_utf8_is_ok(st.valid)

looks_like_utf8_ChopOne(bytes) ==
    IF HasBadByte(bytes) THEN FALSE
    ELSE IF from_utf8_is_ok(bytes) THEN TRUE
    ELSE LET st == ChopLead(ChopConts(bytes, 0, 1)) IN
         IF st.chop > 0 /\ Len(st.valid) = 0 THEN FALSE
         ELSE from_utf8_is_ok(st.valid)

looks_like_utf8_NoEmptyCheck(bytes) ==
    IF HasBadByte(bytes) THEN FALSE
    ELSE IF from_utf8_is_ok(bytes) THEN TRUE
    ELSE LET st == ChopLead(ChopConts(bytes, 0, 3)) IN
         from_utf8_is_ok(st.valid)

looks_like_utf8(bytes) ==
    IF HasBadByte(bytes) THEN FALSE
    ELSE IF from_utf8_is_ok(bytes) THEN TRUE
    ELSE LET st == ChopLead(ChopConts(bytes, 0, 3)) IN
         IF st.chop > 0 /\ Len(st.valid) = 0 THEN FALSE
         ELSE from_utf8_is_ok(st.valid)

(***************************************************************************)
(* The sniffer as a state machine: guess_format registers the matcher,     *)
(* which the inferer calls on the head of the input file.                  *)
(***************************************************************************)
SniffIdle ==
    /\ sniff_bytes = <<>>
    /\ sniff_pc = "idle"
    /\ sniff_result = FALSE

SniffInit ==
    /\ sniff_bytes = <<>>
    /\ sniff_pc = "ready"
    /\ sniff_result = FALSE

\* The inferer reads the head of the input file, here byte by byte.
ReadByte ==
    /\ sniff_pc = "ready"
    /\ Len(sniff_bytes) < MaxLen
    /\ \E b \in ByteSet : sniff_bytes' = Append(sniff_bytes, b)
    /\ UNCHANGED <<sniff_pc, sniff_result>>
    /\ UNCHANGED <<lookup_vars, build_vars>>

Match ==
    /\ sniff_pc = "ready"
    /\ sniff_result' = looks_like_utf8(sniff_bytes)
    /\ sniff_pc' = "matched"
    /\ UNCHANGED sniff_bytes
    /\ UNCHANGED <<lookup_vars, build_vars>>

(***************************************************************************)
(* Command-line strings are sequences of one-character strings.            *)
(***************************************************************************)
Digits == {"0", "1", "2", "3", "4", "5", "6", "7", "8", "9"}

DigitVal(c) ==
    CASE c = "0" -> 0 [] c = "1" -> 1 [] c = "2" -> 2 [] c = "3" -> 3 [] c = "4" -> 4
      [] c = "5" -> 5 [] c = "6" -> 6 [] c = "7" -> 7 [] c = "8" -> 8 [] c = "9" -> 9

\* A u32 is held as two 16-bit limbs, hi * 65536 + lo, so that the whole range
\* of the type, and the step that leaves it, can be computed.
\* The digits of s from index i on, accumulated into (hi, lo); ok is FALSE for
\* a character that is no digit and for a value above u32::MAX.
RECURSIVE ParseDigits(_, _, _, _)
ParseDigits(s, i, hi, lo) ==
    IF i > Len(s) THEN [ok |-> TRUE, hi |-> hi, lo |-> lo]
    ELSE IF s[i] \notin Digits THEN [ok |-> FALSE, hi |-> 0, lo |-> 0]
    ELSE LET low  == lo * 10 + DigitVal(s[i])
             high == hi * 10 + (low \div 65536)
         IN  IF high > 65535 THEN [ok |-> FALSE, hi |-> 0, lo |-> 0]
             ELSE ParseDigits(s, i + 1, high, low % 65536)

\* s.parse::<u32>(): an optional "+", then at least one digit, no overflow.
str_to_u32(s) ==
    LET from == IF Len(s) > 0 /\ s[1] = "+" THEN 2 ELSE 1
    IN  IF from > Len(s) THEN [ok |-> FALSE, hi |-> 0, lo |-> 0]
        ELSE ParseDigits(s, from, 0, 0)

\* The number a parsed u32 stands for.
U32Value(r) == r.hi * 65536 + r.lo

(***************************************************************************)
(* ncd-lookup                                                              *)
(***************************************************************************)
PathChars == {"/", "a", ":"}
Paths == SeqsUpTo(PathChars, MaxPathLen)

\* What clap hands to main for --source: one of the possible values, "guess"
\* when the option is absent.
ClapSources == {{"file"}, {"http"}, {"guess"}}
\* Every Option<&str> Source::new can be called with.
AnySources == ClapSources \cup {{}, {"other"}}

TimeoutArgs ==
    { {}, {<<"5">>}, {<<"+", "7">>}, {<<"x">>}, {<<>>},
      {<<"4", "2", "9", "4", "9", "6", "7", "2", "9", "5">>},
      {<<"4", "2", "9", "4", "9", "6", "7", "2", "9", "6">>} }

\* path.contains("//")
ContainsSlashSlash(path) ==
    \E i \in 1..(Len(path) - 1) : path[i] = "/" /\ path[i+1] = "/"

guess_source_SingleSlash(path) ==
    IF \E i \in 1..Len(path) : path[i] = "/" THEN "Http" ELSE "File"

guess_source(path) ==
    IF ContainsSlashSlash(path) THEN "Http" ELSE "File"

\* Source::new; arg is an Option: {} or {name}.
Source_new(arg, path) ==
    IF arg = {"file"} THEN "File"
    ELSE IF arg = {"http"} THEN "Http"
    ELSE guess_source(path)

\* die: a message on stderr, then process::exit(1).
lookup_die_Silent(cause) ==
    /\ lk_exit' = {1}
    /\ lk_cause' = cause
    /\ lk_pc' = "exited"
    /\ UNCHANGED lk_stderr

lookup_die(cause) ==
    /\ lk_stderr' = lk_stderr + 1
    /\ lk_exit' = {1}
    /\ lk_cause' = cause
    /\ lk_pc' = "exited"

\* process::exit(code) without a message.
lookup_exit(code, cause) ==
    /\ lk_exit' = {code}
    /\ lk_cause' = cause
    /\ lk_pc' = "exited"
    /\ UNCHANGED lk_stderr

lookup_go(pc) ==
    /\ lk_pc' = pc
    /\ UNCHANGED <<lk_stderr, lk_exit, lk_cause>>

LookupIdle ==
    /\ lk_args = [source |-> {}, path |-> <<>>, timeout |-> {}]
    /\ lk_pc = "idle"
    /\ lk_source = "unset"
    /\ lk_value = "unset"
    /\ lk_stdout = "nothing"
    /\ lk_stderr = 0
    /\ lk_exit = {}
    /\ lk_cause = "none"

LookupStart(sources) ==
    /\ lk_args \in [source : sources, path : Paths, timeout : TimeoutArgs]
    /\ lk_pc = "start"
    /\ lk_source = "unset"
    /\ lk_value = "unset"
    /\ lk_stdout = "nothing"
    /\ lk_stderr = 0
    /\ lk_exit = {}
    /\ lk_cause = "none"

\* main: let source_type = Source::new(matches.value_of("source"),path);
SelectSource ==
    /\ lk_pc = "start"
    /\ lk_source' = Source_new(lk_args.source, lk_args.path)
    /\ lookup_go("curl_config")
    /\ UNCHANGED <<lk_args, lk_value, lk_stdout>>
    /\ UNCHANGED <<sniff_vars, build_vars>>

\* main: let curl_config = make_curl_config(&matches);
MakeCurlConfig ==
    /\ lk_pc = "curl_config"
    /\ IF lk_args.timeout # {} /\ \E t \in lk_args.timeout : ~str_to_u32(t).ok
       THEN lookup_die("bad_timeout")
       ELSE lookup_go("accessor")
    /\ UNCHANGED <<lk_args, lk_source, lk_value, lk_stdout>>
    /\ UNCHANGED <<sniff_vars, build_vars>>

\* main: let accessor = die_on_error(source_type.make_accessor(path,&curl_config));
\* The file system and the network answer as they will.
MakeAccessor ==
    /\ lk_pc = "accessor"
    /\ \E exists \in BOOLEAN, created \in BOOLEAN :
         IF lk_source = "File" /\ ~exists THEN lookup_die("no_such_file")
         ELSE IF ~created THEN lookup_die("accessor_error")
         ELSE lookup_go("reader")
    /\ UNCHANGED <<lk_args, lk_source, lk_value, lk_stdout>>
    /\ UNCHANGED <<sniff_vars, build_vars>>

\* main: let mut reader = die_on_error(NCDFileReader::new_box(accessor));
NewReader ==
    /\ lk_pc = "reader"
    /\ \E ok \in BOOLEAN :
         IF ok THEN lookup_go("get") ELSE lookup_die("reader_error")
    /\ UNCHANGED <<lk_args, lk_source, lk_value, lk_stdout>>
    /\ UNCHANGED <<sniff_vars, build_vars>>

\* main: let value = die_on_error(reader.get(key));
Get ==
    /\ lk_pc = "get"
    /\ \E r \in {"err", "none", "some"} :
         IF r = "err"
         THEN lookup_die("lookup_error") /\ UNCHANGED lk_value
         ELSE lookup_go("respond") /\ lk_value' = r
    /\ UNCHANGED <<lk_args, lk_source, lk_stdout>>
    /\ UNCHANGED <<sniff_vars, build_vars>>

\* A mutant of Respond: a missing key exits with status 0.
Respond_NotFoundZero ==
    /\ lk_pc = "respond"
    /\ IF lk_value = "some"
       THEN \E written \in {"value", "partial", "nothing"} :
              /\ lk_stdout' = written
              /\ IF written = "value" THEN lookup_exit(0, "found")
                 ELSE lookup_die("write_error")
       ELSE lookup_exit(0, "not_found") /\ UNCHANGED lk_stdout
    /\ UNCHANGED <<lk_args, lk_source, lk_value>>
    /\ UNCHANGED <<sniff_vars, build_vars>>

\* main: if let Some(value) = value.as_ref() { write_all; exit(0) } else { exit(1) }
Respond ==
    /\ lk_pc = "respond"
    /\ IF lk_value = "some"
       THEN \E written \in {"value", "partial", "nothing"} :
              /\ lk_stdout' = written
              /\ IF written = "value" THEN lookup_exit(0, "found")
                 ELSE lookup_die("write_error")
       ELSE lookup_exit(1, "not_found") /\ UNCHANGED lk_stdout
    /\ UNCHANGED <<lk_args, lk_source, lk_value>>
    /\ UNCHANGED <<sniff_vars, build_vars>>

(***************************************************************************)
(* ncd-build: the build configuration                                      *)
(***************************************************************************)
\* An f64 is held as its number of hundredths, which is exact for the values
\* drawn here (at most two digits after the point).
\* The index of the first "." of s, 0 when it has none.
DotIndex(s) ==
    IF \E i \in 1..Len(s) : s[i] = "."
    THEN CHOOSE i \in 1..Len(s) : s[i] = "." /\ \A j \in 1..(i-1) : s[j] # "."
    ELSE 0

\* s.parse::<f64>() of a plain decimal: digits, optionally a point and digits.
str_to_f64(s) ==
    LET dot  == DotIndex(s)
        ip   == IF dot = 0 THEN s ELSE SubSeq(s, 1, dot - 1)
        fp   == IF dot = 0 THEN <<>> ELSE SubSeq(s, dot + 1, Len(s))
        int  == ParseDigits(ip, 1, 0, 0)
        frac == ParseDigits(fp, 1, 0, 0)
    IN  IF Len(ip) + Len(fp) = 0 \/ ~int.ok \/ ~frac.ok \/ Len(fp) > 2
        THEN [ok |-> FALSE, val |-> 0]
        ELSE [ok |-> TRUE,
              val |-> U32Value(int) * 100
                      + (IF Len(fp) = 1 THEN 10 * U32Value(frac) ELSE U32Value(frac))]

\* NCDBuildConfig::new(): the defaults the option help of make_app states.
NCDBuildConfig_new ==
    [ target_page_size     |-> 32768,
      target_load_factor   |-> 50,
      heap_wiggle_room     |-> 125,
      min_entries_per_page |-> 100,
      external_trheshold   |-> 10,
      rebuild_page_factor  |-> 120,
      force_header_size    |-> {} ]

make_careful_config ==
    [NCDBuildConfig_new EXCEPT
        !.target_page_size    = 16384,
        !.heap_wiggle_room    = 110,
        !.target_load_factor  = 75,
        !.rebuild_page_factor = 110]

\* One `if let Some(v) = matches.value_of(..) { *config = config.knob(parse(v)) }`:
\* sets the field from the option's value when the option is present.
SetU32(config, field, opt) ==
    IF opt = {} THEN config
    ELSE [config EXCEPT ![field] = U32Value(str_to_u32(CHOOSE v \in opt : TRUE))]

SetF64(config, field, opt) ==
    IF opt = {} THEN config
    ELSE [config EXCEPT ![field] = str_to_f64(CHOOSE v \in opt : TRUE).val]

SetOptU32(config, field, opt) ==
    IF opt = {} THEN config
    ELSE [config EXCEPT ![field] = {U32Value(str_to_u32(CHOOSE v \in opt : TRUE))}]

\* A mutant: --min-entries, whose value the code binds to a variable named
\* page_size, sets the page size.
modify_build_config_MinEntriesAsPageSize(config, matches) ==
    LET c1 == SetU32(config, "target_page_size", matches.page_size)
        c2 == SetF64(c1, "target_load_factor", matches.load_factor)
        c3 == SetF64(c2, "heap_wiggle_room", matches.heap_wiggle)
        c4 == SetU32(c3, "target_page_size", matches.min_entries)
        c5 == SetF64(c4, "external_trheshold", matches.external_threshold)
        c6 == SetF64(c5, "rebuild_page_factor", matches.rebuild_factor)
    IN  SetOptU32(c6, "force_header_size", matches.force_header_size)

modify_build_config(config, matches) ==
    LET c1 == SetU32(config, "target_page_size", matches.page_size)
        c2 == SetF64(c1, "target_load_factor", matches.load_factor)
        c3 == SetF64(c2, "heap_wiggle_room", matches.heap_wiggle)
        c4 == SetU32(c3, "min_entries_per_page", matches.min_entries)
        c5 == SetF64(c4, "external_trheshold", matches.external_threshold)
        c6 == SetF64(c5, "rebuild_page_factor", matches.rebuild_factor)
    IN  SetOptU32(c6, "force_header_size", matches.force_header_size)

\* Whether every die_on_error(str_to_..) of modify_build_config passes.
KnobsParse(matches) ==
    /\ \A v \in matches.page_size \cup matches.min_entries \cup matches.force_header_size :
         str_to_u32(v).ok
    /\ \A v \in matches.load_factor \cup matches.heap_wiggle
                \cup matches.external_threshold \cup matches.rebuild_factor :
         str_to_f64(v).ok

\* The command lines: each option absent ({}) or present with a value that
\* passed the validator make_app gives it.
BuildMatches ==
    [ careful            : BOOLEAN,
      page_size          : {{}, {<<"8", "1", "9", "2">>}},
      load_factor        : {{}, {<<"0", ".", "6">>}, {<<"0", ".", "9">>}},
      heap_wiggle        : {{}, {<<"1", ".", "3">>}},
      min_entries        : {{}, {<<"2", "0", "0">>}},
      external_threshold : {{}, {<<"0", ".", "1", "5">>}},
      rebuild_factor     : {{}, {<<"1", ".", "0", "5">>}, {<<"2">>}, {<<"1", ".", "0">>},
                            {<<"0", ".", "5">>}},
      force_header_size  : {{}, {<<"2">>}, {<<"4">>}} ]

(***************************************************************************)
(* ncd-build: main                                                         *)
(***************************************************************************)
\* What may be at the OUTPUT path: nothing, a zero-length file, a partly
\* written file, or a complete store.
FileStates == {"absent", "empty", "partial", "store"}

\* Heads of input files the format guess is run on.
Heads == {<<>>, <<33>>, <<33, 194>>, <<194>>, <<33, 192>>, <<33, 128>>}

\* The page size above which the builder gives the search up.
AbsMaxPageSize == 65536

\* The page sizes the sources drawn need to pack: one packs at once, one
\* after growth, one never.
NeedSet == {0, 40000, AbsMaxPageSize + 1}

\* The builder's growth of the page size after a failed attempt.
Grow(page_size, factor) == (page_size * factor) \div 100

\* The output trace keeps its last MaxTrace lines.
Emit(trace, line) ==
    LET t == Append(trace, line)
    IN  IF Len(t) > MaxTrace THEN Tail(t) ELSE t

\* die: a message on stderr, then process::exit(1).  Nothing else is done:
\* the file at OUTPUT stays as it is.
build_die(cause) ==
    /\ bd_stderr' = bd_stderr + 1
    /\ bd_exit' = {1}
    /\ bd_cause' = cause
    /\ bd_pc' = "exited"

build_go(pc) ==
    /\ bd_pc' = pc
    /\ UNCHANGED <<bd_stderr, bd_exit, bd_cause>>

BuildIdle ==
    /\ bd_matches = {}
    /\ bd_pc = "idle"
    /\ bd_config = NCDBuildConfig_new
    /\ bd_file = "absent"
    /\ bd_page_size = 0
    /\ bd_need = 0
    /\ bd_success = FALSE
    /\ bd_trace = <<>>
    /\ bd_stderr = 0
    /\ bd_exit = {}
    /\ bd_cause = "none"

BuildStart ==
    /\ bd_matches \in {m \in BuildMatches : KnobsParse(m)}
    /\ bd_pc = "start"
    /\ bd_config = NCDBuildConfig_new
    /\ bd_file \in {"absent", "store"}
    /\ bd_page_size = 0
    /\ bd_need = 0
    /\ bd_success = FALSE
    /\ bd_trace = <<>>
    /\ bd_stderr = 0
    /\ bd_exit = {}
    /\ bd_cause = "none"

\* main: build_config = careful ? make_careful_config() : NCDBuildConfig::new();
\*       modify_build_config(&mut build_config,&matches);
Configure ==
    /\ bd_pc = "start"
    /\ IF KnobsParse(bd_matches)
       THEN /\ bd_config' = modify_build_config(
                   IF bd_matches.careful THEN make_careful_config ELSE NCDBuildConfig_new,
                   bd_matches)
            /\ build_go("check_input")
       ELSE build_die("bad_option") /\ UNCHANGED bd_config
    /\ UNCHANGED <<bd_matches, bd_file, bd_page_size, bd_need, bd_success, bd_trace>>
    /\ UNCHANGED <<sniff_vars, lookup_vars>>

\* main: if !input_path.exists() { die(..) }
CheckInput ==
    /\ bd_pc = "check_input"
    /\ \E exists \in BOOLEAN :
         IF exists THEN build_go("create_output") ELSE build_die("no_input")
    /\ UNCHANGED <<bd_matches, bd_config, bd_file, bd_page_size, bd_need, bd_success, bd_trace>>
    /\ UNCHANGED <<sniff_vars, lookup_vars>>

\* A mutant of CreateOutput: the file is opened without being truncated.
CreateOutput_NoTruncate ==
    /\ bd_pc = "create_output"
    /\ \E created \in BOOLEAN :
         IF created
         THEN /\ bd_file' = IF bd_file = "absent" THEN "empty" ELSE bd_file
              /\ build_go("format")
         ELSE build_die("cannot_create") /\ UNCHANGED bd_file
    /\ UNCHANGED <<bd_matches, bd_config, bd_page_size, bd_need, bd_success, bd_trace>>
    /\ UNCHANGED <<sniff_vars, lookup_vars>>

\* main: if File::create(output_path).is_err() { die(..) }
\* File::create makes the file, or truncates the one that is there.
CreateOutput ==
    /\ bd_pc = "create_output"
    /\ \E created \in BOOLEAN :
         IF created
         THEN bd_file' = "empty" /\ build_go("format")
         ELSE build_die("cannot_create") /\ UNCHANGED bd_file
    /\ UNCHANGED <<bd_matches, bd_config, bd_page_size, bd_need, bd_success, bd_trace>>
    /\ UNCHANGED <<sniff_vars, lookup_vars>>

\* guess_format: the matcher registered for text/plain is looks_like_utf8;
\* a head it refuses is given another type, or none, by the inferer, and
\* Format::from_mime_type knows text/plain alone.
guess_format(head) == IF looks_like_utf8(head) THEN {"Flat"} ELSE {}

\* main: let format = Format::from_cli(format, input);
ChooseFormat ==
    /\ bd_pc = "format"
    /\ \E name \in {"flat", "gdbm", "guess"}, head \in Heads, readable \in BOOLEAN :
         IF name = "flat" THEN build_go("source")
         ELSE IF name = "guess"
              THEN IF ~readable THEN build_die("infer_error")
                   ELSE IF guess_format(head) # {} THEN build_go("source")
                   ELSE build_die("unknown_format")
              ELSE build_die("unknown_format")
    /\ UNCHANGED <<bd_matches, bd_config, bd_file, bd_page_size, bd_need, bd_success, bd_trace>>
    /\ UNCHANGED <<sniff_vars, lookup_vars>>

\* main: let source = die_on_error(format.to_source(&input,&flat_config));
MakeSource ==
    /\ bd_pc = "source"
    /\ \E ok \in BOOLEAN :
         IF ok THEN build_go("builder") ELSE build_die("source_error")
    /\ UNCHANGED <<bd_matches, bd_config, bd_file, bd_page_size, bd_need, bd_success, bd_trace>>
    /\ UNCHANGED <<sniff_vars, lookup_vars>>

\* main: let mut builder = die_on_error(NCDBuild::new(&build_config,source,&output_path));
NewBuilder ==
    /\ bd_pc = "builder"
    /\ \E ok \in BOOLEAN, need \in NeedSet :
         IF ok
         THEN /\ bd_page_size' = bd_config.target_page_size
              /\ bd_need' = need
              /\ build_go("describe")
         ELSE build_die("builder_error") /\ UNCHANGED <<bd_page_size, bd_need>>
    /\ UNCHANGED <<bd_matches, bd_config, bd_file, bd_success, bd_trace>>
    /\ UNCHANGED <<sniff_vars, lookup_vars>>

\* loop: println!("Attempting to build: {}",builder.describe_attempt());
LoopDescribe ==
    /\ bd_pc = "describe"
    /\ bd_trace' = Emit(bd_trace, "describe")
    /\ build_go("attempt")
    /\ UNCHANGED <<bd_matches, bd_config, bd_file, bd_page_size, bd_need, bd_success>>
    /\ UNCHANGED <<sniff_vars, lookup_vars>>

\* builder.attempt(): Err for a failure that is not a page overflow (and for
\* a page size grown beyond the maximum), after which the builder has
\* truncated or removed the file; Ok(true) when the source packs, the store
\* written; Ok(false) on a page overflow, the page size grown.
attempt_outcomes ==
    LET failure == { [result |-> "err", file |-> f, page_size |-> bd_page_size]
                       : f \in {"absent", "empty"} }
    IN  IF bd_page_size > AbsMaxPageSize THEN failure
        ELSE failure \cup
             (IF bd_page_size >= bd_need
              THEN {[result |-> "true", file |-> "store", page_size |-> bd_page_size]}
              ELSE {[result |-> "false", file |-> bd_file,
                     page_size |-> Grow(bd_page_size, bd_config.rebuild_page_factor)]})

\* loop: let success = die_on_error(builder.attempt());
LoopAttempt ==
    /\ bd_pc = "attempt"
    /\ \E o \in attempt_outcomes :
         /\ bd_file' = o.file
         /\ bd_page_size' = o.page_size
         /\ bd_trace' = Emit(bd_trace, "attempt:" \o o.result)
         /\ IF o.result = "err"
            THEN build_die("attempt_error") /\ UNCHANGED bd_success
            ELSE build_go("result") /\ bd_success' = (o.result = "true")
    /\ UNCHANGED <<bd_matches, bd_config, bd_need>>
    /\ UNCHANGED <<sniff_vars, lookup_vars>>

\* A mutant of LoopResult: the loop breaks before the result is printed.
LoopResult_BreakFirst ==
    /\ bd_pc = "result"
    /\ IF bd_success
       THEN /\ bd_pc' = "exited" /\ bd_exit' = {0} /\ bd_cause' = "built"
            /\ UNCHANGED <<bd_stderr, bd_trace>>
       ELSE bd_trace' = Emit(bd_trace, "result") /\ build_go("describe")
    /\ UNCHANGED <<bd_matches, bd_config, bd_file, bd_page_size, bd_need, bd_success>>
    /\ UNCHANGED <<sniff_vars, lookup_vars>>

\* loop: println!("  {}",builder.result()); if success { break }
\* after which main returns and the process ends with status 0.
LoopResult ==
    /\ bd_pc = "result"
    /\ bd_trace' = Emit(bd_trace, "result")
    /\ IF bd_success
       THEN bd_pc' = "exited" /\ bd_exit' = {0} /\ bd_cause' = "built" /\ UNCHANGED bd_stderr
       ELSE build_go("describe")
    /\ UNCHANGED <<bd_matches, bd_config, bd_file, bd_page_size, bd_need, bd_success>>
    /\ UNCHANGED <<sniff_vars, lookup_vars>>

(***************************************************************************)
(* The specifications.                                                     *)
(***************************************************************************)
SniffSpecInit == SniffInit /\ LookupIdle /\ BuildIdle

SniffNext ==
    \/ ReadByte
    \/ Match

SniffSpec == SniffSpecInit /\ [][SniffNext]_vars

\* Source::new over every argument it can be called with.
SelectInit == SniffIdle /\ LookupStart(AnySources) /\ BuildIdle

SelectNext == SelectSource

SelectSpec == SelectInit /\ [][SelectNext]_vars

LookupInit == SniffIdle /\ LookupStart(ClapSources) /\ BuildIdle

LookupNext ==
    \/ SelectSource
    \/ MakeCurlConfig
    \/ MakeAccessor
    \/ NewReader
    \/ Get
    \/ Respond

LookupSpec == LookupInit /\ [][LookupNext]_vars

BuildInit == SniffIdle /\ LookupIdle /\ BuildStart

BuildNext ==
    \/ Configure
    \/ CheckInput
    \/ CreateOutput
    \/ ChooseFormat
    \/ MakeSource
    \/ NewBuilder
    \/ LoopDescribe
    \/ LoopAttempt
    \/ LoopResult

BuildSpec == BuildInit /\ [][BuildNext]_vars

\* The process is one thread that runs until it exits.
FairBuildSpec == BuildSpec /\ WF_vars(BuildNext)

(***************************************************************************)
(* Properties of the sniffer (SniffSpec).                                  *)
(***************************************************************************)
Prefix(s, k) == SubSeq(s, 1, k)
Suffix(s, k) == SubSeq(s, k + 1, Len(s))

\* t is the beginning of a well-formed multi-byte sequence that stops short:
\* a lead byte and fewer continuation bytes than the lead byte requires.
TruncatedTail(t) ==
    /\ Len(t) >= 1
    /\ Len(t) <= 3
    /\ SeqLen(t[1]) >= 2
    /\ Len(t) < SeqLen(t[1])
    /\ Len(t) >= 2 => (t[2] >= SecondLo(t[1]) /\ t[2] <= SecondHi(t[1]))
    /\ Len(t) >= 3 => IsCont(t[3])

\* s is valid UTF-8 cut off inside its final code point, the part before
\* that code point being at least `least` bytes long.
CutOffUtf8(s, least) ==
    \E k \in least..(Len(s) - 1) :
        from_utf8_is_ok(Prefix(s, k)) /\ TruncatedTail(Suffix(s, k))

\* s is nothing but a multi-byte sequence that is not complete: at most one
\* lead byte, then at most three continuation bytes, and not valid UTF-8.
SolelyIncomplete(s) ==
    /\ Len(s) >= 1
    /\ ~from_utf8_is_ok(s)
    /\ \/ Len(s) <= 3 /\ \A i \in 1..Len(s) : IsCont(s[i])
       \/ s[1] > 191 /\ Len(s) <= 4 /\ \A i \in 2..Len(s) : IsCont(s[i])

\* C4: an input that holds a byte 0xC0, 0xC1 or above 0xF4 anywhere is refused,
\* whatever its other bytes are.
C4_RejectsForbiddenBytes ==
    (sniff_pc = "matched"
     /\ \E i \in 1..Len(sniff_bytes) :
           sniff_bytes[i] = 192 \/ sniff_bytes[i] = 193 \/ sniff_bytes[i] > 244)
    => sniff_result = FALSE

\* C4 witness: text followed by 0xC0, which is refused.
C4_Witness ==
    sniff_pc = "matched" /\ sniff_bytes = <<33, 192>> /\ sniff_result = FALSE

\* C5 as stated: every valid UTF-8 string, the empty one included, followed by
\* a truncated beginning of a multi-byte sequence is accepted.
C5_AcceptsEveryCutOff ==
    (sniff_pc = "matched" /\ CutOffUtf8(sniff_bytes, 0)) => sniff_result = TRUE

\* C5 amended: every non-empty valid UTF-8 string followed by a truncated
\* beginning of a multi-byte sequence is accepted.
C5_AcceptsCutOffAfterText ==
    (sniff_pc = "matched" /\ CutOffUtf8(sniff_bytes, 1)) => sniff_result = TRUE

\* C5 witness: a character, then a four-byte sequence cut after three bytes.
C5_Witness ==
    sniff_pc = "matched" /\ sniff_bytes = <<33, 243, 128, 128>> /\ sniff_result = TRUE

\* C9: an input that is neither valid UTF-8 nor valid UTF-8 cut off inside its
\* final code point is refused.
C9_RejectsEverythingElse ==
    (sniff_pc = "matched"
     /\ ~from_utf8_is_ok(sniff_bytes)
     /\ ~CutOffUtf8(sniff_bytes, 0))
    => sniff_result = FALSE

\* C10: the empty input is accepted, and a non-empty input that is nothing
\* but an incomplete multi-byte sequence is refused.
C10_RejectsLoneIncomplete ==
    sniff_pc = "matched"
    => /\ sniff_bytes = <<>> => sniff_result = TRUE
       /\ SolelyIncomplete(sniff_bytes) => sniff_result = FALSE

\* C10 witness: a four-byte lead byte and one continuation byte, refused.
C10_Witness ==
    sniff_pc = "matched" /\ sniff_bytes = <<243, 128>> /\ sniff_result = FALSE

(***************************************************************************)
(* Properties of ncd-lookup (SelectSpec, LookupSpec).                      *)
(***************************************************************************)
HasDoubleSlash(path) == \E i \in 1..(Len(path) - 1) : SubSeq(path, i, i + 1) = <<"/", "/">>

\* C6: "file" selects the file accessor and "http" the HTTP accessor whatever
\* the path is; any other selector, or none, selects the HTTP accessor exactly
\* when the path contains "//", and the file accessor otherwise.
C6_SourceSelection ==
    lk_pc = "curl_config"
    => /\ lk_args.source = {"file"} => lk_source = "File"
       /\ lk_args.source = {"http"} => lk_source = "Http"
       /\ lk_args.source \notin {{"file"}, {"http"}}
            => lk_source = (IF HasDoubleSlash(lk_args.path) THEN "Http" ELSE "File")

\* C6 witness: the guess made for a path with a single "/".
C6_Witness ==
    /\ lk_pc = "curl_config"
    /\ lk_args.source = {"guess"}
    /\ lk_args.path = <<"a", "/", "a">>
    /\ lk_source = "File"

\* C1: the process exits with 0 exactly when the reader returned a value and
\* the value was written to stdout, with 1 otherwise, and with a message on
\* stderr unless the key was merely not found.
C1_ExitStatus ==
    lk_pc = "exited"
    => /\ lk_exit \in {{0}, {1}}
       /\ lk_exit = {0} <=> (lk_value = "some" /\ lk_stdout = "value")
       /\ (lk_exit = {1} /\ lk_value # "none") => lk_stderr >= 1

\* C1 witness: a key that is not found ends the process with status 1.
C1_Witness ==
    lk_pc = "exited" /\ lk_value = "none" /\ lk_exit = {1}

(***************************************************************************)
(* Properties of ncd-build (BuildSpec, FairBuildSpec).                     *)
(***************************************************************************)
\* The fatal errors that follow the creation of the output file.
BuildFailures ==
    {"unknown_format", "infer_error", "source_error", "builder_error", "attempt_error"}

\* C2: a run that ends in a fatal error leaves nothing at OUTPUT that could be
\* taken for a store: no file, or a file of length zero.
C2_NoOutputAfterFailure ==
    (bd_pc = "exited" /\ bd_cause \in BuildFailures) => bd_file \in {"absent", "empty"}

\* C2 witness: a run ended by an unknown format, the file at OUTPUT empty.
C2_Witness ==
    bd_pc = "exited" /\ bd_cause = "unknown_format" /\ bd_file = "empty"

\* C3: from a configuration with load factor at most 0.75 the retry loop ends,
\* in success or in a fatal error.
C3_LoopTerminates ==
    [](  (bd_pc = "describe" /\ bd_config.target_load_factor <= 75)
         => <>(bd_pc = "exited") )

IsOkAttempt(line) == line \in {"attempt:true", "attempt:false"}
IsAttempt(line) == IsOkAttempt(line) \/ line = "attempt:err"

\* C7: the trace alternates.  A describe line comes right before every call
\* of attempt(), and only one; a result line follows every attempt that
\* returned without error before anything else happens; after the attempt that
\* succeeded the result line is the last line.
C7_TraceAlternates ==
    /\ bd_pc = "attempt" => (bd_trace # <<>> /\ bd_trace[Len(bd_trace)] = "describe")
    /\ (bd_trace # <<>> /\ Len(bd_trace) < MaxTrace) => bd_trace[1] = "describe"
    /\ (bd_pc = "exited" /\ bd_cause = "built")
         => (Len(bd_trace) >= 3 /\ bd_trace[Len(bd_trace)] = "result"
             /\ bd_trace[Len(bd_trace) - 1] = "attempt:true")
    /\ \A i \in 1..Len(bd_trace) :
         /\ IsAttempt(bd_trace[i])
              => /\ i > 1 => bd_trace[i-1] = "describe"
                 /\ i > 2 => bd_trace[i-2] # "describe"
         /\ bd_trace[i] = "describe" => (i = 1 \/ bd_trace[i-1] = "result")
         /\ bd_trace[i] = "result" => (i = 1 \/ IsOkAttempt(bd_trace[i-1]))
         /\ IsOkAttempt(bd_trace[i])
              => IF i < Len(bd_trace) THEN bd_trace[i+1] = "result" ELSE bd_pc = "result"
         /\ bd_trace[i] = "attempt:true" => i >= Len(bd_trace) - 1
         /\ bd_trace[i] = "attempt:err" => (i = Len(bd_trace) /\ bd_pc = "exited")

\* C7 witness: a build that succeeded at its second attempt or later.
C7_Witness ==
    /\ bd_pc = "exited"
    /\ bd_cause = "built"
    /\ \E i \in 1..Len(bd_trace) : bd_trace[i] = "attempt:false"

\* The careful preset as the claim states it.
CarefulPreset ==
    [ target_page_size     |-> 16384,
      target_load_factor   |-> 75,
      heap_wiggle_room     |-> 110,
      min_entries_per_page |-> 100,
      external_trheshold   |-> 10,
      rebuild_page_factor  |-> 110,
      force_header_size    |-> {} ]

\* The value a knob must have: the option's when it is present, the base's
\* otherwise.
Expected(opt, value(_), base) == IF opt = {} THEN base ELSE value(CHOOSE v \in opt : TRUE)

AsU32(v) == U32Value(str_to_u32(v))
AsF64(v) == str_to_f64(v).val
AsSomeU32(v) == {U32Value(str_to_u32(v))}

\* C8: after modify_build_config each of the seven knobs has the value of
\* its option when the option is present and the value of the base
\* configuration (the default, or the careful preset) when it is absent.
C8_KnobsFollowOptions ==
    bd_pc \notin {"start", "idle"}
    => LET m == bd_matches
           base == IF m.careful THEN CarefulPreset ELSE NCDBuildConfig_new
       IN  /\ bd_config.target_page_size
                = Expected(m.page_size, AsU32, base.target_page_size)
           /\ bd_config.target_load_factor
                = Expected(m.load_factor, AsF64, base.target_load_factor)
           /\ bd_config.heap_wiggle_room
                = Expected(m.heap_wiggle, AsF64, base.heap_wiggle_room)
           /\ bd_config.min_entries_per_page
                = Expected(m.min_entries, AsU32, base.min_entries_per_page)
           /\ bd_config.external_trheshold
                = Expected(m.external_threshold, AsF64, base.external_trheshold)
           /\ bd_config.rebuild_page_factor
                = Expected(m.rebuild_factor, AsF64, base.rebuild_page_factor)
           /\ bd_config.force_header_size
                = Expected(m.force_header_size, AsSomeU32, base.force_header_size)

\* C8 witness: the careful preset with --min-entries 200 and no --page-size.
C8_Witness ==
    /\ bd_pc = "check_input"
    /\ bd_matches.careful
    /\ bd_matches.min_entries = {<<"2", "0", "0">>}
    /\ bd_matches.page_size = {}
    /\ bd_config.min_entries_per_page = 200
    /\ bd_config.target_page_size = 16384

====
